---- MODULE Spec2Model ----
(***************************************************************************)
(* Model of the rule-based course assistant chatbot (src/chatbot.py).      *)
(* Strings are modelled as sequences of one-character strings so that      *)
(* lowercasing, trimming, punctuation removal and substring search are     *)
(* computed character by character, as the Python code computes them.      *)
(***************************************************************************)
EXTENDS Integers, Sequences, FiniteSets, TLC

VARIABLES conversation_history, calls, response, stats, stats_reads,
          pc, user_input, cleaned, recleaned, lines

vars == <<conversation_history, calls, response, stats, stats_reads,
          pc, user_input, cleaned, recleaned, lines>>

(***************************************************************************)
(* Bounds of the model.                                                    *)
(***************************************************************************)
\* longest Session Log explored by the API specification
MaxTurns == 3
\* number of get_statistics calls explored by the API specification
MaxStatsReads == 2
\* longest run of one padding character inserted between two pieces
MaxPad == 1
\* number of lines the terminal loop reads
MaxLines == 3

(***************************************************************************)
(* Characters.                                                             *)
(***************************************************************************)
LowerAlpha == <<"a", "b", "c", "d", "e", "f", "g", "h", "i", "j", "k", "l", "m",
                "n", "o", "p", "q", "r", "s", "t", "u", "v", "w", "x", "y", "z">>

UpperAlpha == <<"A", "B", "C", "D", "E", "F", "G", "H", "I", "J", "K", "L", "M",
                "N", "O", "P", "Q", "R", "S", "T", "U", "V", "W", "X", "Y", "Z">>

Digits == {"0", "1", "2", "3", "4", "5", "6", "7", "8", "9"}

Range(f) == {f[i] : i \in DOMAIN f}

\* \w of the regular expression: letters, digits and underscore
WordChars == Range(LowerAlpha) \cup Range(UpperAlpha) \cup Digits \cup {"_"}

\* \s of the regular expression, and what str.strip() removes
Whitespace == {" ", "\t"}

\* str.lower() on one character
LowerChar(c) ==
  IF \E i \in DOMAIN UpperAlpha : UpperAlpha[i] = c
  THEN LowerAlpha[CHOOSE i \in DOMAIN UpperAlpha : UpperAlpha[i] = c]
  ELSE c

\* str.lower()
lower(s) == [i \in 1..Len(s) |-> LowerChar(s[i])]

RECURSIVE lstrip(_)
lstrip(s) ==
  IF s # <<>> /\ Head(s) \in Whitespace THEN lstrip(Tail(s)) ELSE s

RECURSIVE rstrip(_)
rstrip(s) ==
  IF s # <<>> /\ s[Len(s)] \in Whitespace
  THEN rstrip(SubSeq(s, 1, Len(s) - 1))
  ELSE s

\* str.strip()
strip(s) == rstrip(lstrip(s))

\* re.sub(r'[^\w\s]', '', s): drop every character that is neither \w nor \s
KeepChar(c) == c \in WordChars \/ c \in Whitespace

remove_punctuation(s) == SelectSeq(s, KeepChar)

(***************************************************************************)
(* The intent table built by __init__ (a dict: iteration is in insertion   *)
(* order, recorded in IntentOrder).                                        *)
(***************************************************************************)
intents ==
  [ greeting |-> [
      patterns |-> <<
        <<"h", "e", "l", "l", "o">>,
        <<"h", "i">>,
        <<"h", "e", "y">>,
        <<"g", "r", "e", "e", "t", "i", "n", "g", "s">>,
        <<"g", "o", "o", "d", " ", "m", "o", "r", "n", "i", "n", "g">>,
        <<"g", "o", "o", "d", " ", "a", "f", "t", "e", "r", "n", "o", "o", "n">>
      >>,
      responses |-> <<
        "Hello! I'm your AI Course Assistant. How can I help you today?",
        "Hi there! Ask me anything about AI courses and programming.",
        "Greetings! I'm here to help with your AI course questions."
      >> ],
    course_info |-> [
      patterns |-> <<
        <<"c", "o", "u", "r", "s", "e">>,
        <<"w", "h", "a", "t", " ", "i", "s", " ", "d", "a", "i", "0", "1", "1">>,
        <<"p", "r", "o", "g", "r", "a", "m", "m", "i", "n", "g", " ", "f", "o", "r", " ", "a", "i">>,
        <<"s", "u", "b", "j", "e", "c", "t">>,
        <<"m", "o", "d", "u", "l", "e">>
      >>,
      responses |-> <<
        "DAI011: Programming for AI is a course that teaches Python programming fundamentals with a focus on AI and ML applications. You'll learn data handling, basic algorithms, and how to use AI libraries.",
        "This course covers Python basics, data analysis with Pandas, machine learning with scikit-learn, and building simple AI applications."
      >> ],
    assessment |-> [
      patterns |-> <<
        <<"c", "a", "t">>,
        <<"e", "x", "a", "m">>,
        <<"a", "s", "s", "e", "s", "s", "m", "e", "n", "t">>,
        <<"t", "e", "s", "t">>,
        <<"m", "a", "r", "k", "s">>,
        <<"g", "r", "a", "d", "e">>,
        <<"e", "v", "a", "l", "u", "a", "t", "i", "o", "n">>
      >>,
      responses |-> <<
        "The course assessment includes Continuous Assessment Tests (CATs) worth 30% and a final exam worth 70%. CAT 2 focuses on GitHub workflow and a Python AI project.",
        "Your CAT 2 is worth 20% of continuous assessment (40 marks total). It includes GitHub setup, a Python project, and documentation."
      >> ],
    libraries |-> [
      patterns |-> <<
        <<"l", "i", "b", "r", "a", "r", "y">>,
        <<"l", "i", "b", "r", "a", "r", "i", "e", "s">>,
        <<"p", "a", "c", "k", "a", "g", "e">>,
        <<"p", "a", "n", "d", "a", "s">>,
        <<"n", "u", "m", "p", "y">>,
        <<"s", "c", "i", "k", "i", "t">>,
        <<"t", "o", "o", "l", "s">>
      >>,
      responses |-> <<
        "Common AI/ML libraries in Python include: Pandas (data manipulation), NumPy (numerical computing), scikit-learn (machine learning), Matplotlib (visualization), and TensorFlow/PyTorch (deep learning).",
        "For this course, you'll mainly use Pandas for data analysis, NumPy for arrays, and scikit-learn for basic machine learning models."
      >> ],
    help_project |-> [
      patterns |-> <<
        <<"h", "e", "l", "p">>,
        <<"p", "r", "o", "j", "e", "c", "t">>,
        <<"a", "s", "s", "i", "g", "n", "m", "e", "n", "t">>,
        <<"s", "t", "u", "c", "k">>,
        <<"h", "o", "w", " ", "t", "o">>,
        <<"g", "u", "i", "d", "e">>
      >>,
      responses |-> <<
        "For your project: 1) Set up GitHub repository, 2) Choose a project option (chatbot, data analyzer, or ML model), 3) Write clean, commented code, 4) Document everything with screenshots. Need help with a specific part?",
        "I can help! Break your project into small steps: start with GitHub setup, then write basic code, test it, commit changes regularly, and finally write your report with screenshots."
      >> ],
    github |-> [
      patterns |-> <<
        <<"g", "i", "t", "h", "u", "b">>,
        <<"g", "i", "t">>,
        <<"r", "e", "p", "o", "s", "i", "t", "o", "r", "y">>,
        <<"c", "o", "m", "m", "i", "t">>,
        <<"p", "u", "s", "h">>,
        <<"v", "e", "r", "s", "i", "o", "n", " ", "c", "o", "n", "t", "r", "o", "l">>
      >>,
      responses |-> <<
        "GitHub is a platform for version control using Git. Basic workflow: 1) git add (stage files), 2) git commit -m 'message' (save changes), 3) git push (upload to GitHub). Make at least 3 commits showing your progress!",
        "For CAT 2, create a public repository named 'AI_Programming_Project', add a README, and commit your code incrementally with clear messages like 'Initial setup', 'Added data handling', 'Final implementation'."
      >> ],
    thanks |-> [
      patterns |-> <<
        <<"t", "h", "a", "n", "k">>,
        <<"t", "h", "a", "n", "k", "s">>,
        <<"a", "p", "p", "r", "e", "c", "i", "a", "t", "e">>,
        <<"h", "e", "l", "p", "f", "u", "l">>
      >>,
      responses |-> <<
        "You're welcome! Good luck with your project!",
        "Happy to help! Feel free to ask if you have more questions.",
        "Glad I could assist! Best wishes with your coursework!"
      >> ],
    goodbye |-> [
      patterns |-> <<
        <<"b", "y", "e">>,
        <<"g", "o", "o", "d", "b", "y", "e">>,
        <<"s", "e", "e", " ", "y", "o", "u">>,
        <<"e", "x", "i", "t">>,
        <<"q", "u", "i", "t">>
      >>,
      responses |-> <<
        "Goodbye! Good luck with your studies!",
        "See you later! Feel free to come back anytime.",
        "Take care! All the best with your AI projects!"
      >> ] ]

IntentOrder == <<"greeting", "course_info", "assessment", "libraries",
                 "help_project", "github", "thanks", "goodbye">>

Unknown == "unknown"

Fallback == "I'm not sure I understand. I can help with: course information, assessments, Python libraries, project guidance, and GitHub. Try asking about any of these topics!"

\* outcome of a failed dict lookup self.intents[intent]
KeyError == "KeyError"

(***************************************************************************)
(* preprocess_input                                                        *)
(***************************************************************************)
preprocess_input(raw) == remove_punctuation(strip(lower(raw)))

(***************************************************************************)
(* identify_intent                                                         *)
(***************************************************************************)
\* Python's  pattern in user_input
Contains(s, p) ==
  \E i \in 1..(Len(s) - Len(p) + 1) :
     /\ s[i] = p[1]
     /\ SubSeq(s, i, i + Len(p) - 1) = p

\* the inner loop over data['patterns']
MatchesAnyPattern(patterns, s) ==
  \E j \in 1..Len(patterns) : Contains(s, patterns[j])

RECURSIVE ScanIntents(_, _)
ScanIntents(s, k) ==
  IF k > Len(IntentOrder) THEN Unknown
  ELSE IF MatchesAnyPattern(intents[IntentOrder[k]].patterns, s)
       THEN IntentOrder[k]
       ELSE ScanIntents(s, k + 1)

RECURSIVE ScanIntentsBackwards(_, _)
ScanIntentsBackwards(s, k) ==
  IF k < 1 THEN Unknown
  ELSE IF MatchesAnyPattern(intents[IntentOrder[k]].patterns, s)
       THEN IntentOrder[k]
       ELSE ScanIntentsBackwards(s, k - 1)

\* variant: the table is scanned from its last intent to its first
identify_intent_last(s) == ScanIntentsBackwards(s, Len(IntentOrder))

\* variant: no match yields a key other than the sentinel
identify_intent_none(s) ==
  IF ScanIntents(s, 1) = Unknown THEN "none" ELSE ScanIntents(s, 1)

identify_intent(s) == ScanIntents(s, 1)

(***************************************************************************)
(* generate_response                                                       *)
(***************************************************************************)
\* variant: the sentinel is looked up in the table like any other key
generate_response_no_fallback(intent) ==
  IF intent \in DOMAIN intents THEN intents[intent].responses[1]
  ELSE KeyError

\* variant: the last response of the list is returned instead of the first
generate_response_last(intent) ==
  IF intent = Unknown THEN Fallback
  ELSE IF intent \in DOMAIN intents
       THEN intents[intent].responses[Len(intents[intent].responses)]
       ELSE KeyError

generate_response(intent) ==
  IF intent = Unknown THEN Fallback
  ELSE IF intent \in DOMAIN intents THEN intents[intent].responses[1]
       ELSE KeyError

(***************************************************************************)
(* chat: append the pending Turn, classify, then fill in the same Turn.    *)
(* A KeyError raised by generate_response leaves the pending Turn in the   *)
(* log without 'bot' and 'intent'.                                         *)
(***************************************************************************)
\* variant: the new Turn is inserted at the front of the log
chat_prepend(history, raw, timestamp) ==
  LET intent == identify_intent(preprocess_input(raw))
      reply  == generate_response(intent)
  IN  [history  |-> <<[time |-> timestamp, user |-> raw,
                       bot |-> reply, intent |-> intent]>> \o history,
       response |-> reply]

\* variant: the Turn records the normalized text instead of the raw input
chat_store_cleaned(history, raw, timestamp) ==
  LET cleaned_input == preprocess_input(raw)
      intent        == identify_intent(cleaned_input)
      reply         == generate_response(intent)
  IN  [history  |-> Append(history, [time |-> timestamp, user |-> cleaned_input,
                                     bot |-> reply, intent |-> intent]),
       response |-> reply]

chat(history, raw, timestamp) ==
  LET pending       == Append(history, [time |-> timestamp, user |-> raw])
      cleaned_input == preprocess_input(raw)
      intent        == identify_intent(cleaned_input)
      reply         == generate_response(intent)
  IN  IF reply = KeyError
      THEN [history |-> pending, response |-> KeyError]
      ELSE [history  |-> [pending EXCEPT ![Len(pending)] =
                             [time |-> @.time, user |-> @.user,
                              bot |-> reply, intent |-> intent]],
            response |-> reply]

(***************************************************************************)
(* get_statistics                                                          *)
(***************************************************************************)
\* entry.get('intent', 'unknown')
EntryIntent(entry) ==
  IF "intent" \in DOMAIN entry THEN entry.intent ELSE Unknown

RECURSIVE CountIntents(_, _, _)
CountIntents(history, k, intent_counts) ==
  IF k > Len(history) THEN intent_counts
  ELSE LET intent == EntryIntent(history[k])
       IN  CountIntents(history, k + 1,
             IF intent \in DOMAIN intent_counts
             THEN [intent_counts EXCEPT ![intent] = @ + 1]
             ELSE intent_counts @@ (intent :> 1))

\* variant: total_messages counts the distinct intents, not the Turns
get_statistics_distinct(history) ==
  [total_messages      |-> Cardinality(DOMAIN CountIntents(history, 1, <<>>)),
   intent_distribution |-> CountIntents(history, 1, <<>>)]

get_statistics(history) ==
  [total_messages      |-> Len(history),
   intent_distribution |-> CountIntents(history, 1, <<>>)]

(***************************************************************************)
(* The exit test of the terminal loop.                                     *)
(***************************************************************************)
TellMeAboutDAI011 == <<"T", "e", "l", "l", " ", "m", "e", " ", "a", "b", "o", "u", "t", " ", "D", "A", "I", "0", "1", "1">>

HelloThere == <<"H", "e", "l", "l", "o", " ", "t", "h", "e", "r", "e", "!">>

ThanksALot == <<"t", "h", "a", "n", "k", "s", " ", "a", " ", "l", "o", "t">>

Gibberish == <<"a", "s", "d", "k", "j", "a", "s", "d">>

WhatsTheWeather == <<"w", "h", "a", "t", "'", "s", " ", "t", "h", "e", " ", "w", "e", "a", "t", "h", "e", "r">>

Dai011 == <<"d", "a", "i", "0", "1", "1">>

HelpfulUpper == <<"H", "E", "L", "P", "F", "U", "L">>

BangSpace == <<"!", " ">>

Hi == <<"h", "i">>

Quit == <<"q", "u", "i", "t">>

Exit == <<"e", "x", "i", "t">>

Bye == <<"b", "y", "e">>

Goodbye == <<"g", "o", "o", "d", "b", "y", "e">>

QuitUpper == <<"Q", "U", "I", "T">>

ByePadded == <<" ", "B", "y", "e", " ">>

ByeBye == <<"b", "y", "e", " ", "b", "y", "e">>

HelloPadded == <<" ", "H", "e", "l", "l", "o", " ", "t", "h", "e", "r", "e", "!", " ">>

Blank == <<" ">>

Punct == <<"!", "?">>

ExitKeywords == {Quit, Exit, Bye, Goodbye}

\* variant: the exit test is case-sensitive
is_exit_case_sensitive(line) == line \in ExitKeywords

\* user_input.lower() in ['quit', 'exit', 'bye', 'goodbye']
is_exit(line) == lower(line) \in ExitKeywords

(***************************************************************************)
(* Inputs.                                                                 *)
(***************************************************************************)
\* wall-clock readings of datetime.now().strftime("%H:%M:%S")
TimeStamps == {"09:00:00", "09:00:01"}

AllPatterns ==
  UNION {Range(intents[i].patterns) : i \in DOMAIN intents}

Pieces ==
  AllPatterns \cup {<<>>, TellMeAboutDAI011, HelloThere, ThanksALot, Gibberish,
                    WhatsTheWeather, Dai011, HelpfulUpper, BangSpace}

PadChars == {" ", "!"}

Pads == {[i \in 1..n |-> c] : c \in PadChars, n \in 0..MaxPad}

\* two pieces of text joined by a run of blanks or of punctuation
PureInputs == {a \o pad \o b : a \in Pieces, pad \in Pads, b \in Pieces}

\* arguments of chat in the API specification
ChatInputs == {<<>>, Blank, Hi, Gibberish, HelloThere, Goodbye}

\* lines typed at the terminal
Lines == {<<>>, Blank, Quit, QuitUpper, ByePadded, Exit, Goodbye,
          Hi, ByeBye, HelloPadded, Punct}

NoStats == [total_messages |-> -1, intent_distribution |-> <<>>]

NoResponse == ""

(***************************************************************************)
(* One call of chat on the responder.                                      *)
(***************************************************************************)
DoChat(raw, timestamp) ==
  LET r == chat(conversation_history, raw, timestamp)
  IN  /\ conversation_history' = r.history
      /\ response' = r.response
      /\ calls' = Append(calls, [arg |-> raw, ret |-> r.response])

Fresh ==
  /\ conversation_history = <<>>
  /\ calls = <<>>
  /\ response = NoResponse
  /\ stats = NoStats
  /\ stats_reads = 0
  /\ cleaned = <<>>
  /\ recleaned = <<>>
  /\ lines = <<>>

(***************************************************************************)
(* API specification: chat and get_statistics called in any order on a     *)
(* fresh responder.                                                        *)
(***************************************************************************)
Init ==
  /\ Fresh
  /\ pc = "api"
  /\ user_input = <<>>

Chat ==
  /\ pc = "api"
  /\ Len(conversation_history) < MaxTurns
  /\ \E raw \in ChatInputs, timestamp \in TimeStamps :
        /\ DoChat(raw, timestamp)
        /\ user_input' = raw
  /\ UNCHANGED <<stats, stats_reads, pc, cleaned, recleaned, lines>>

GetStatistics ==
  /\ pc = "api"
  /\ stats_reads < MaxStatsReads
  /\ stats' = get_statistics(conversation_history)
  /\ stats_reads' = stats_reads + 1
  /\ UNCHANGED <<conversation_history, calls, response, pc, user_input,
                 cleaned, recleaned, lines>>

Next == Chat \/ GetStatistics

Spec == Init /\ [][Next]_vars

(***************************************************************************)
(* Pure-function specification: one input, normalized, normalized again,   *)
(* then passed to chat on a fresh responder.                               *)
(***************************************************************************)
InitPure ==
  /\ Fresh
  /\ pc = "input"
  /\ user_input \in PureInputs

Preprocess ==
  /\ pc = "input"
  /\ cleaned' = preprocess_input(user_input)
  /\ pc' = "cleaned"
  /\ UNCHANGED <<conversation_history, calls, response, stats, stats_reads,
                 user_input, recleaned, lines>>

PreprocessAgain ==
  /\ pc = "cleaned"
  /\ recleaned' = preprocess_input(cleaned)
  /\ pc' = "recleaned"
  /\ UNCHANGED <<conversation_history, calls, response, stats, stats_reads,
                 user_input, cleaned, lines>>

ChatOnce ==
  /\ pc = "recleaned"
  /\ \E timestamp \in TimeStamps : DoChat(user_input, timestamp)
  /\ pc' = "chatted"
  /\ UNCHANGED <<stats, stats_reads, user_input, cleaned, recleaned, lines>>

NextPure == Preprocess \/ PreprocessAgain \/ ChatOnce

SpecPure == InitPure /\ [][NextPure]_vars

(***************************************************************************)
(* Terminal loop of main(): one action per way an iteration can go.        *)
(***************************************************************************)
InitMain ==
  /\ Fresh
  /\ pc = "loop"
  /\ user_input = <<>>

\* the line is an exit keyword: print the statistics and break
MainExit ==
  /\ pc = "loop"
  /\ Len(lines) < MaxLines
  /\ \E line \in Lines :
        /\ is_exit(strip(line))
        /\ lines' = Append(lines, line)
        /\ user_input' = strip(line)
  /\ stats' = get_statistics(conversation_history)
  /\ stats_reads' = stats_reads + 1
  /\ pc' = "done"
  /\ UNCHANGED <<conversation_history, calls, response, cleaned, recleaned>>

\* the line is empty after trimming: continue
MainSkip ==
  /\ pc = "loop"
  /\ Len(lines) < MaxLines
  /\ \E line \in Lines :
        /\ ~ is_exit(strip(line))
        /\ strip(line) = <<>>
        /\ lines' = Append(lines, line)
        /\ user_input' = strip(line)
  /\ UNCHANGED <<conversation_history, calls, response, stats, stats_reads,
                 pc, cleaned, recleaned>>

\* any other line is passed, trimmed, to chat
MainChat ==
  /\ pc = "loop"
  /\ Len(lines) < MaxLines
  /\ \E line \in Lines, timestamp \in TimeStamps :
        /\ ~ is_exit(strip(line))
        /\ strip(line) # <<>>
        /\ lines' = Append(lines, line)
        /\ user_input' = strip(line)
        /\ DoChat(strip(line), timestamp)
  /\ UNCHANGED <<stats, stats_reads, pc, cleaned, recleaned>>

\* input() raises EOFError: the program ends without printing statistics
MainEOF ==
  /\ pc = "loop"
  /\ pc' = "eof"
  /\ UNCHANGED <<conversation_history, calls, response, stats, stats_reads,
                 user_input, cleaned, recleaned, lines>>

NextMain == MainExit \/ MainSkip \/ MainChat \/ MainEOF

SpecMain == InitMain /\ [][NextMain]_vars

(***************************************************************************)
(* Definitions used to state the properties.  They are written without     *)
(* the operators above, so that the properties compare the program with    *)
(* an independent description of what it should compute.                   *)
(***************************************************************************)
\* p occurs in s as a contiguous block
Occurs(p, s) ==
  \E off \in 0..(Len(s) - Len(p)) : \A j \in 1..Len(p) : s[off + j] = p[j]

\* the intents one of whose patterns occurs in s
MatchingIntents(s) ==
  {i \in DOMAIN intents : \E p \in Range(intents[i].patterns) : Occurs(p, s)}

Rank(i) == CHOOSE k \in 1..Len(IntentOrder) : IntentOrder[k] = i

FirstInOrder(S) == CHOOSE i \in S : \A j \in S : Rank(i) <= Rank(j)

FirstResponse(i) == intents[i].responses[1]

\* p is a pattern of intent i and of no other intent
OnlyIn(p, i) ==
  /\ p \in Range(intents[i].patterns)
  /\ \A j \in DOMAIN intents \ {i} : p \notin Range(intents[j].patterns)

RECURSIVE SumOver(_, _)
SumOver(f, S) ==
  IF S = {} THEN 0
  ELSE LET x == CHOOSE x \in S : TRUE IN f[x] + SumOver(f, S \ {x})

SumValues(f) == SumOver(f, DOMAIN f)

LastTurn == conversation_history[Len(conversation_history)]

\* the single call of the pure-function specification has returned
Chatted == pc = "chatted" /\ Len(conversation_history) >= 1

Classified == Chatted /\ "intent" \in DOMAIN LastTurn

TurnFields == {"time", "user", "bot", "intent"}

\* a line of the terminal that is neither empty nor an exit keyword once trimmed
IsExitLine(line) == lower(strip(line)) \in {Quit, Exit, Bye, Goodbye}

IsChatLine(line) == strip(line) # <<>> /\ ~ IsExitLine(line)

ChatLines == SelectSeq(lines, IsChatLine)

(***************************************************************************)
(* C1: every get_statistics call made after N calls of chat returns        *)
(* total_messages = N and an intent_distribution whose values sum to N.    *)
(***************************************************************************)
C1_StatisticsCountCalls ==
  [][stats_reads' # stats_reads =>
       /\ stats'.total_messages = Len(calls)
       /\ SumValues(stats'.intent_distribution) = Len(calls)]_vars

\* chat("hi"), chat("asdkjasd"), then get_statistics
C1_Witness ==
  /\ stats_reads >= 1
  /\ Len(calls) = 2
  /\ calls[1].arg = Hi
  /\ calls[2].arg = Gibberish
  /\ stats.total_messages = 2
  /\ stats.intent_distribution = ("greeting" :> 1 @@ "unknown" :> 1)

(***************************************************************************)
(* C2: when patterns of two or more intents occur in the normalized input, *)
(* the recorded intent is the matching intent that comes first in table    *)
(* order, and chat returns that intent's first response.                   *)
(***************************************************************************)
C2_FirstMatchingIntentWins ==
  Chatted =>
    LET m == MatchingIntents(cleaned)
    IN  Cardinality(m) >= 2 =>
          /\ "intent" \in DOMAIN LastTurn
          /\ LastTurn.intent = FirstInOrder(m)
          /\ response = FirstResponse(FirstInOrder(m))

\* "hello github" resolves to greeting
C2_Witness ==
  /\ Classified
  /\ {"greeting", "github"} \subseteq MatchingIntents(cleaned)
  /\ Occurs(<<"g", "i", "t", "h", "u", "b">>, cleaned)
  /\ LastTurn.intent = "greeting"
  /\ response = FirstResponse("greeting")

(***************************************************************************)
(* C3 as stated: whenever a pattern, which belongs to one intent only,     *)
(* occurs in the normalized input embedded in text that holds no pattern   *)
(* itself, chat returns the first response of the pattern's intent.        *)
(***************************************************************************)
\* p occurs in s, and neither the text before it nor the text after it
\* holds a pattern
EmbeddedAlone(p, s) ==
  \E off \in 0..(Len(s) - Len(p)) :
     /\ \A j \in 1..Len(p) : s[off + j] = p[j]
     /\ MatchingIntents(SubSeq(s, 1, off)) = {}
     /\ MatchingIntents(SubSeq(s, off + Len(p) + 1, Len(s))) = {}

C3_Original ==
  Chatted =>
    \A i \in DOMAIN intents : \A p \in Range(intents[i].patterns) :
       (OnlyIn(p, i) /\ EmbeddedAlone(p, cleaned)) =>
          response = FirstResponse(i)

(***************************************************************************)
(* C3 amended: when the patterns occurring in the normalized input all     *)
(* belong to one and the same intent, chat returns that intent's first     *)
(* response.                                                               *)
(***************************************************************************)
C3_SingleIntentResponse ==
  Chatted =>
    \A i \in DOMAIN intents :
       MatchingIntents(cleaned) = {i} => response = FirstResponse(i)

\* "thanks a lot" is answered with the first response of thanks
C3_Witness ==
  /\ Chatted
  /\ user_input = ThanksALot
  /\ MatchingIntents(cleaned) = {"thanks"}
  /\ response = "You're welcome! Good luck with your project!"

(***************************************************************************)
(* C4: normalizing an already normalized string changes nothing.           *)
(***************************************************************************)
C4_Idempotent ==
  pc \in {"recleaned", "chatted"} => recleaned = cleaned

(***************************************************************************)
(* C5: when no pattern occurs in the normalized input, chat raises no      *)
(* error, appends one Turn with intent unknown and returns the fallback.   *)
(***************************************************************************)
C5_NoMatchFallback ==
  (Chatted /\ MatchingIntents(cleaned) = {}) =>
     /\ response = Fallback
     /\ Len(conversation_history) = 1
     /\ Len(calls) = 1
     /\ DOMAIN LastTurn = TurnFields
     /\ LastTurn.intent = Unknown
     /\ LastTurn.bot = Fallback

\* chat("") on a fresh responder
C5_Witness ==
  /\ Classified
  /\ user_input = <<>>
  /\ LastTurn.intent = Unknown
  /\ response = Fallback

(***************************************************************************)
(* C6: "Tell me about DAI011" is classified as course_info and answered    *)
(* with the course description; every normalized input in which "dai011"   *)
(* occurs and no greeting pattern occurs is classified as course_info.     *)
(***************************************************************************)
C6_Dai011IsCourseInfo ==
  Chatted =>
    /\ user_input = TellMeAboutDAI011 =>
         /\ "intent" \in DOMAIN LastTurn
         /\ LastTurn.intent = "course_info"
         /\ response = FirstResponse("course_info")
    /\ (Occurs(Dai011, cleaned) /\ "greeting" \notin MatchingIntents(cleaned)) =>
         /\ "intent" \in DOMAIN LastTurn
         /\ LastTurn.intent = "course_info"

(***************************************************************************)
(* C7: a chat call adds one Turn at the end of the log and leaves the      *)
(* earlier Turns as they were; a get_statistics call leaves the log alone. *)
(***************************************************************************)
C7_AppendOnly ==
  [][/\ Len(calls') # Len(calls) =>
          /\ Len(calls') = Len(calls) + 1
          /\ Len(conversation_history') = Len(conversation_history) + 1
          /\ SubSeq(conversation_history', 1, Len(conversation_history))
                = conversation_history
     /\ stats_reads' # stats_reads =>
          conversation_history' = conversation_history
     /\ Len(conversation_history') >= Len(conversation_history)]_vars

\* a log of different Turns that was read and then extended
C7_Witness ==
  /\ stats_reads >= 1
  /\ stats.total_messages = 1
  /\ Len(conversation_history) = 3
  /\ conversation_history[1] # conversation_history[2]
  /\ conversation_history[2] # conversation_history[3]

(***************************************************************************)
(* C8: the log of the terminal loop holds, in order, one Turn per line     *)
(* read that is neither empty nor an exit keyword once trimmed; no Turn    *)
(* has an empty or exit-keyword text; the statistics are read once, when   *)
(* the first exit line is read, and nothing is read after it.              *)
(***************************************************************************)
C8_LoopFiltersLines ==
  /\ Len(conversation_history) = Len(ChatLines)
  /\ Len(calls) = Len(ChatLines)
  /\ \A k \in 1..Len(conversation_history) :
        /\ conversation_history[k].user = strip(ChatLines[k])
        /\ calls[k].arg = strip(ChatLines[k])
        /\ conversation_history[k].user # <<>>
        /\ lower(conversation_history[k].user) \notin {Quit, Exit, Bye, Goodbye}
  /\ \A k \in 1..(Len(lines) - 1) : ~ IsExitLine(lines[k])
  /\ pc = "done" <=> (lines # <<>> /\ IsExitLine(lines[Len(lines)]))
  /\ stats_reads = (IF pc = "done" THEN 1 ELSE 0)
  /\ pc = "done" => stats.total_messages = Len(ChatLines)

\* an empty line, a chatted line, then an exit keyword in capitals
C8_Witness ==
  /\ pc = "done"
  /\ Len(lines) = 3
  /\ lines[1] = Blank
  /\ lines[3] = QuitUpper
  /\ Len(conversation_history) = 1
  /\ stats_reads = 1

(***************************************************************************)
(* C9: the intent chat obtains from identify_intent is the sentinel or a   *)
(* key of the table, and the lookup in generate_response does not fail.    *)
(***************************************************************************)
C9_IntentIsKnownKey ==
  Chatted =>
    /\ response # KeyError
    /\ "intent" \in DOMAIN LastTurn
    /\ LastTurn.intent \in (DOMAIN intents \cup {Unknown})
    /\ LastTurn.intent \in DOMAIN intents => response \in Range(intents[LastTurn.intent].responses)

\* "what's the weather push" is classified under a key of the table
C9_Witness ==
  /\ Classified
  /\ user_input = WhatsTheWeather \o <<" ">> \o <<"p", "u", "s", "h">>
  /\ LastTurn.intent = "github"
  /\ response # KeyError

(***************************************************************************)
(* C10: between calls, every Turn of the log is complete: it holds the raw *)
(* text of its call, the intent of the normalized text, the response of    *)
(* that intent, and that response is what the call returned.               *)
(***************************************************************************)
C10_TurnsComplete ==
  /\ Len(calls) = Len(conversation_history)
  /\ \A k \in 1..Len(conversation_history) :
        LET turn == conversation_history[k]
        IN  /\ DOMAIN turn = TurnFields
            /\ turn.user = calls[k].arg
            /\ turn.intent = identify_intent(preprocess_input(calls[k].arg))
            /\ turn.bot = generate_response(turn.intent)
            /\ turn.bot = calls[k].ret
            /\ turn.bot # KeyError
            /\ EntryIntent(turn) = turn.intent

\* a Turn whose raw text differs from its normalized text
C10_Witness ==
  /\ Len(conversation_history) = 2
  /\ conversation_history[1].user = HelloThere
  /\ preprocess_input(HelloThere) # HelloThere
  /\ conversation_history[1].intent = "greeting"
  /\ conversation_history[2].intent = Unknown
  /\ calls[2].ret = Fallback

====
